---------------------------- MODULE Spec2Model ----------------------------
(***************************************************************************)
(* Model of src/CoT.py: the rule-based workout planner deterministic_agent,*)
(* the remote planner llm_agent with its fallback, and the loop of         *)
(* compare_workout_planning that calls both for every user.                *)
(*                                                                         *)
(* Python strings are TLA+ strings; lower(), "in", strip(), startswith(),  *)
(* endswith() and slicing are computed character by character.  A Python   *)
(* list is a sequence, a dict is a sequence of entries in insertion order. *)
(***************************************************************************)
EXTENDS Integers, Sequences, FiniteSets, TLC

(***************************************************************************)
(* Bounds of the model.                                                    *)
(***************************************************************************)
MaxLevel == 5
MaxGoals == 2
MaxPrefs == 2
MaxLims == 1
MaxUsers == 2

None == "<None>"

\* None where a list is expected (the default of FitnessUser's limitations)
NoList == <<None>>

(***************************************************************************)
(* str methods                                                             *)
(***************************************************************************)
LowerChar(c) ==
    CASE c = "A" -> "a" [] c = "B" -> "b" [] c = "C" -> "c" [] c = "D" -> "d"
      [] c = "E" -> "e" [] c = "F" -> "f" [] c = "G" -> "g" [] c = "H" -> "h"
      [] c = "I" -> "i" [] c = "J" -> "j" [] c = "K" -> "k" [] c = "L" -> "l"
      [] c = "M" -> "m" [] c = "N" -> "n" [] c = "O" -> "o" [] c = "P" -> "p"
      [] c = "Q" -> "q" [] c = "R" -> "r" [] c = "S" -> "s" [] c = "T" -> "t"
      [] c = "U" -> "u" [] c = "V" -> "v" [] c = "W" -> "w" [] c = "X" -> "x"
      [] c = "Y" -> "y" [] c = "Z" -> "z" [] OTHER -> c

UpperCase == {"A", "B", "C", "D", "E", "F", "G", "H", "I", "J", "K", "L", "M",
              "N", "O", "P", "Q", "R", "S", "T", "U", "V", "W", "X", "Y", "Z"}

RECURSIVE Lower(_)
\* s.lower(): every upper-case letter replaced, from the first one on
Lower(s) ==
    LET upper == {i \in 1..Len(s) : SubSeq(s, i, i) \in UpperCase}
    IN  IF upper = {} THEN s
        ELSE LET i == CHOOSE j \in upper : \A k \in upper : j <= k
             IN  SubSeq(s, 1, i - 1) \o LowerChar(SubSeq(s, i, i))
                     \o Lower(SubSeq(s, i + 1, Len(s)))

\* sub in s
Contains(sub, s) ==
    \E i \in 1..(Len(s) - Len(sub) + 1) : SubSeq(s, i, i + Len(sub) - 1) = sub

\* x in list
InList(x, list) == \E i \in 1..Len(list) : list[i] = x

(***************************************************************************)
(* class FitnessUser                                                       *)
(***************************************************************************)
\* FitnessUser.__init__: "limitations or []" turns None (and []) into [].
FitnessUser(id, age, fitness_level, goals, preferences, limitations) ==
    [id |-> id, age |-> age, fitness_level |-> fitness_level, goals |-> goals,
     preferences |-> preferences,
     limitations |-> IF limitations \in {NoList, <<>>} THEN <<>> ELSE limitations]

(***************************************************************************)
(* deterministic_agent: static tables                                      *)
(***************************************************************************)
days == <<"Monday", "Tuesday", "Wednesday", "Thursday", "Friday", "Saturday",
          "Sunday">>

\* dict literal, in insertion (= iteration) order
goal_to_workout ==
    << [key |-> "weight management", value |-> <<"cardio", "HIIT", "strength training">>],
       [key |-> "stress reduction", value |-> <<"yoga", "active recovery", "cardio">>],
       [key |-> "strength building", value |-> <<"strength training", "HIIT">>],
       [key |-> "joint mobility", value |-> <<"flexibility", "swimming", "yoga">>],
       [key |-> "endurance", value |-> <<"cardio", "swimming">>],
       [key |-> "muscle gain", value |-> <<"strength training">>],
       [key |-> "flexibility", value |-> <<"yoga", "flexibility">>] >>

workout_descriptions ==
    << [key |-> "strength training",
        value |-> "Focus on building muscle with weights or bodyweight exercises"],
       [key |-> "cardio",
        value |-> "Aerobic exercises to improve heart health and endurance"],
       [key |-> "flexibility",
        value |-> "Stretching exercises to improve range of motion"],
       [key |-> "HIIT",
        value |-> "High-intensity interval training for efficient calorie burn"],
       [key |-> "active recovery",
        value |-> "Light activity to promote recovery and reduce soreness"],
       [key |-> "yoga",
        value |-> "Combination of strength, flexibility, and mindfulness"],
       [key |-> "swimming", value |-> "Low-impact full-body workout in water"] >>

(***************************************************************************)
(* dict operations                                                         *)
(***************************************************************************)
HasKey(d, k) == \E i \in 1..Len(d) : d[i].key = k

\* d.get(k, default)
DictGet(d, k, default) ==
    IF HasKey(d, k) THEN d[CHOOSE i \in 1..Len(d) : d[i].key = k].value
    ELSE default

\* d[k] = v: an existing key keeps its position, a new key goes last
DictSet(d, k, v) ==
    IF HasKey(d, k)
    THEN [i \in 1..Len(d) |-> IF d[i].key = k THEN [key |-> k, value |-> v] ELSE d[i]]
    ELSE Append(d, [key |-> k, value |-> v])

Keys(d) == [i \in 1..Len(d) |-> d[i].key]

RECURSIVE FromKeys(_, _)
\* dict.fromkeys(list), continued from the dict d
FromKeys(list, d) ==
    IF list = <<>> THEN d ELSE FromKeys(Tail(list), DictSet(d, Head(list), None))

(***************************************************************************)
(* deterministic_agent, stage by stage                                     *)
(***************************************************************************)
\* Mutant of LevelParameters: the tier boundaries compared with < instead of <=.
LevelParametersStrict(fitness_level) ==
    IF fitness_level < 1
    THEN [workout_days |-> 3, base_intensity |-> "light", base_duration |-> 30,
          workout_day_indices |-> <<0, 2, 4>>]
    ELSE IF fitness_level < 3
    THEN [workout_days |-> 4, base_intensity |-> "moderate", base_duration |-> 45,
          workout_day_indices |-> <<0, 2, 4, 6>>]
    ELSE [workout_days |-> 5, base_intensity |-> "high", base_duration |-> 60,
          workout_day_indices |-> <<0, 1, 3, 5, 6>>]

\* lines 44-59: parameters of the fitness level
LevelParameters(fitness_level) ==
    IF fitness_level <= 1
    THEN [workout_days |-> 3, base_intensity |-> "light", base_duration |-> 30,
          workout_day_indices |-> <<0, 2, 4>>]
    ELSE IF fitness_level <= 3
    THEN [workout_days |-> 4, base_intensity |-> "moderate", base_duration |-> 45,
          workout_day_indices |-> <<0, 2, 4, 6>>]
    ELSE [workout_days |-> 5, base_intensity |-> "high", base_duration |-> 60,
          workout_day_indices |-> <<0, 1, 3, 5, 6>>]

Min(a, b) == IF a < b THEN a ELSE b

\* any(word in limitation.lower() for limitation in limitations)
AnyLimitation(word, limitations) ==
    \E i \in 1..Len(limitations) : Contains(word, Lower(limitations[i]))

\* Mutant of AdjustForLimitations: the limitation texts matched without lower().
AdjustForLimitationsCaseSensitive(p, limitations) ==
    LET timed == \E i \in 1..Len(limitations) : Contains("time", limitations[i])
        joint == \E i \in 1..Len(limitations) : Contains("joint", limitations[i])
    IN  [workout_days |-> IF timed THEN Min(p.workout_days, 4) ELSE p.workout_days,
         base_duration |-> IF timed THEN Min(p.base_duration, 30) ELSE p.base_duration,
         base_intensity |-> IF joint /\ p.base_intensity = "high" THEN "moderate"
                            ELSE p.base_intensity,
         workout_day_indices |-> p.workout_day_indices]

\* lines 61-68: adjust for limitations
AdjustForLimitations(p, limitations) ==
    LET timed == AnyLimitation("time", limitations)
        joint == AnyLimitation("joint", limitations)
    IN  [workout_days |-> IF timed THEN Min(p.workout_days, 4) ELSE p.workout_days,
         base_duration |-> IF timed THEN Min(p.base_duration, 30) ELSE p.base_duration,
         base_intensity |-> IF joint /\ p.base_intensity = "high" THEN "moderate"
                            ELSE p.base_intensity,
         workout_day_indices |-> p.workout_day_indices]

\* line 85: g.lower() for the key g of every entry
LoweredKeys == [j \in 1..Len(goal_to_workout) |-> Lower(goal_to_workout[j].key)]

RECURSIVE ExtendForGoal(_, _, _)
\* lines 84-86: the inner loop over goal_to_workout.items(), from entry j on;
\* lowered is goal.lower(), the same at every entry
ExtendForGoal(types, lowered, j) ==
    IF j > Len(goal_to_workout) THEN types
    ELSE ExtendForGoal(
             IF Contains(LoweredKeys[j], lowered)
             THEN types \o goal_to_workout[j].value ELSE types,
             lowered, j + 1)

RECURSIVE ExtendForGoals(_, _)
\* lines 82-86: the loop over user.goals
ExtendForGoals(types, goals) ==
    IF goals = <<>> THEN types
    ELSE LET lowered == Lower(Head(goals))
         IN  ExtendForGoals(ExtendForGoal(types, lowered, 1), Tail(goals))

\* Mutant of DefaultIfEmpty: no default set.
NoDefault(types) == types

\* lines 88-90: the default set
DefaultIfEmpty(types) ==
    IF types = <<>> THEN <<"cardio", "strength training", "flexibility">> ELSE types

\* Mutant of RemoveDuplicates: the list kept as it is.
KeepDuplicates(types) == types

\* line 93: list(dict.fromkeys(types))
RemoveDuplicates(types) == Keys(FromKeys(types, <<>>))

\* lines 81-93
SelectWorkoutTypes(goals) ==
    RemoveDuplicates(DefaultIfEmpty(ExtendForGoals(<<>>, goals)))

\* Mutant of ApplyPreference: three independent if statements instead of
\* if / elif / elif.
ApplyPreferenceCumulative(types, pref) ==
    LET t1 == IF Contains("swimming", Lower(pref)) /\ ~InList("swimming", types)
              THEN Append(types, "swimming") ELSE types
        t2 == IF Contains("outdoor", Lower(pref)) /\ ~InList("cardio", t1)
              THEN Append(t1, "cardio") ELSE t1
    IN  IF Contains("home", Lower(pref)) /\ \A w \in {"yoga", "HIIT"} : ~InList(w, t2)
        THEN Append(t2, "HIIT") ELSE t2

\* lines 97-102: one pass of the loop body for preference pref
ApplyPreference(types, pref) ==
    IF Contains("swimming", Lower(pref)) /\ ~InList("swimming", types)
    THEN Append(types, "swimming")
    ELSE IF Contains("outdoor", Lower(pref)) /\ ~InList("cardio", types)
    THEN Append(types, "cardio")
    ELSE IF Contains("home", Lower(pref))
            /\ \A w \in {"yoga", "HIIT"} : ~InList(w, types)
    THEN Append(types, "HIIT")
    ELSE types

RECURSIVE ApplyPreferences(_, _)
\* lines 96-102
ApplyPreferences(types, preferences) ==
    IF preferences = <<>> THEN types
    ELSE ApplyPreferences(ApplyPreference(types, Head(preferences)), Tail(preferences))

\* Mutant of DayIntensity: active recovery lowers only a high intensity.
DayIntensityOnlyFromHigh(workout_type, intensity) ==
    IF workout_type = "active recovery" /\ intensity = "high" THEN "light"
    ELSE IF workout_type = "HIIT" /\ intensity = "light" THEN "moderate"
    ELSE intensity

\* lines 120-125
DayIntensity(workout_type, intensity) ==
    IF workout_type = "active recovery" /\ intensity # "light" THEN "light"
    ELSE IF workout_type = "HIIT" /\ intensity = "light" THEN "moderate"
    ELSE intensity

\* lines 127-132
DayDuration(workout_type, duration) ==
    IF workout_type = "HIIT" /\ duration > 30 THEN 30
    ELSE IF workout_type = "yoga" /\ duration < 45 THEN 45
    ELSE duration

\* lines 118-139: the descriptor of iteration i (0-based)
DayWorkout(i, types, intensity, duration) ==
    LET workout_type == types[(i % Len(types)) + 1]
    IN  [type |-> workout_type,
         duration |-> DayDuration(workout_type, duration),
         intensity |-> DayIntensity(workout_type, intensity),
         description |-> DictGet(workout_descriptions, workout_type, "Custom workout")]

\* Mutant of ScheduledCount: range(len(workout_day_indices)).
ScheduledCountAllDesignated(p) == Len(p.workout_day_indices)

\* line 116: range(min(workout_days, len(workout_day_indices)))
ScheduledCount(p) == Min(p.workout_days, Len(p.workout_day_indices))

RECURSIVE FillSchedule(_, _, _, _, _)
\* lines 116-139: iterations i .. n-1 of the loop, on the schedule so far
FillSchedule(schedule, i, n, p, types) ==
    IF i >= n THEN schedule
    ELSE FillSchedule(
             DictSet(schedule, days[p.workout_day_indices[i + 1] + 1],
                     DayWorkout(i, types, p.base_intensity, p.base_duration)),
             i + 1, n, p, types)

\* lines 115-139
CreateSchedule(p, types) == FillSchedule(<<>>, 0, ScheduledCount(p), p, types)

\* lines 35-141, as the caller sees it
deterministic_agent(user) ==
    [weekly_schedule |->
        CreateSchedule(
            AdjustForLimitations(LevelParameters(user.fitness_level), user.limitations),
            ApplyPreferences(SelectWorkoutTypes(user.goals), user.preferences))]


(***************************************************************************)
(* llm_agent                                                               *)
(***************************************************************************)
Whitespace == {" ", "\t", "\n"}

RECURSIVE LStrip(_)
LStrip(s) == IF s # "" /\ Head(s) \in Whitespace THEN LStrip(Tail(s)) ELSE s

RECURSIVE RStrip(_)
RStrip(s) ==
    IF s # "" /\ SubSeq(s, Len(s), Len(s)) \in Whitespace
    THEN RStrip(SubSeq(s, 1, Len(s) - 1)) ELSE s

\* s.strip()
Strip(s) == RStrip(LStrip(s))

StartsWith(s, prefix) == Len(s) >= Len(prefix) /\ SubSeq(s, 1, Len(prefix)) = prefix

EndsWith(s, suffix) ==
    Len(s) >= Len(suffix) /\ SubSeq(s, Len(s) - Len(suffix) + 1, Len(s)) = suffix

\* The markdown fence of lines 238-242, three backquotes.  A TLA+ string cannot
\* hold a backquote: here, and in the response texts, "~" stands for it.
Fence == "~~~"

\* lines 236-244: clean up potential markdown formatting
CleanMarkdown(result_text) ==
    LET t1 == Strip(result_text)
        t2 == IF StartsWith(t1, Fence \o "json") THEN SubSeq(t1, 8, Len(t1)) ELSE t1
        t3 == IF StartsWith(t2, Fence) THEN SubSeq(t2, 4, Len(t2)) ELSE t2
        t4 == IF EndsWith(t3, Fence) THEN SubSeq(t3, 1, Len(t3) - 3) ELSE t3
    IN  Strip(t4)

\* The JSON documents of the model, each with the Python value json.loads gives
\* for it; json.loads raises on any other text.
JsonDocuments ==
    << [key |-> "{\"weekly_schedule\": {}}",
        value |-> [kind |-> "dict",
                   items |-> << [key |-> "weekly_schedule", value |-> <<>>] >>]],
       [key |-> "{}", value |-> [kind |-> "dict", items |-> <<>>]],
       [key |-> "[]", value |-> [kind |-> "list", items |-> <<>>]] >>

Raise(message) == [raised |-> TRUE, error |-> message, value |-> None]

Return(v) == [raised |-> FALSE, error |-> None, value |-> v]

\* line 246: json.loads(text); white space around the document is allowed
JsonLoads(text) ==
    IF HasKey(JsonDocuments, Strip(text))
    THEN Return(DictGet(JsonDocuments, Strip(text), None))
    ELSE Raise("Expecting value")

\* lines 226-246: the body of the try block on the outcome of the remote call.
\* The call raises (a network or API error), or answers with no choice
\* (choices[0] raises), or with a choice whose content is None (None.strip()
\* raises) or a text.
TryBlock(outcome) ==
    IF outcome.kind = "raise" THEN Raise("Connection error.")
    ELSE IF outcome.kind = "no_choices" THEN Raise("list index out of range")
    ELSE IF outcome.content = None
    THEN Raise("'NoneType' object has no attribute 'strip'")
    ELSE JsonLoads(CleanMarkdown(outcome.content))

\* lines 248-258: except Exception as e
ExceptBlock(user, e) ==
    LET fallback == deterministic_agent(user)
    IN  Return([kind |-> "dict",
                items |-> << [key |-> "chain_of_thought",
                              value |-> << [key |-> "error",
                                            value |-> "LLM failed: " \o e] >>],
                             [key |-> "reasoning",
                              value |-> "Fallback to rule-based plan due to error"],
                             [key |-> "weekly_schedule",
                              value |-> fallback.weekly_schedule],
                             [key |-> "considerations",
                              value |-> "Using deterministic agent as backup."] >>])

\* Mutant of llm_agent: "except json.JSONDecodeError" instead of
\* "except Exception".
llm_agent_CatchJsonOnly(user, outcome) ==
    LET tried == TryBlock(outcome)
        handled == tried.raised /\ tried.error = "Expecting value"
        result == IF handled THEN ExceptBlock(user, tried.error) ELSE tried
    IN  [raised |-> result.raised, error |-> result.error, value |-> result.value,
         caught |-> tried.error]

\* lines 151-258: what llm_agent(user) does on the outcome of the remote call:
\* "return value" (raised = FALSE) or an exception that leaves the function
\* (raised = TRUE, error); caught is the exception e of line 248, None when the
\* try block ended without one.
llm_agent(user, outcome) ==
    LET tried == TryBlock(outcome)
        result == IF tried.raised THEN ExceptBlock(user, tried.error) ELSE tried
    IN  [raised |-> result.raised, error |-> result.error, value |-> result.value,
         caught |-> tried.error]

(***************************************************************************)
(* Inputs                                                                  *)
(***************************************************************************)
Seqs(S, n) == UNION {[1..m -> S] : m \in 0..n}

Levels == 0..MaxLevel

GoalTexts == {"weight management", "stress reduction", "joint mobility",
              "Endurance and FLEXIBILITY", "Muscle Gain"}

\* A goal no phrase of goal_to_workout is part of.
OtherGoalTexts == {"unknown goal xyz"}

\* The preference lists of main() (lines 309, 317), and none.
SamplePreferences == {<<"home workouts", "morning routines">>,
                      <<"outdoor activities", "swimming">>, <<>>}

PreferenceTexts == {"home workouts", "Outdoor activities", "outdoor swimming",
                    "morning routines"}

LimitationTexts == {"time constraints (max 30 min/day)", "mild Joint stiffness",
                    "limited equipment", "stiff joints, little TIME"}

\* The users of main() (lines 303-320) and two more.
SampleUsers ==
    { FitnessUser("U001", 35, 2, <<"weight management", "stress reduction">>,
                  <<"home workouts", "morning routines">>,
                  <<"limited equipment", "time constraints (max 30 min/day)">>),
      FitnessUser("U002", 55, 3, <<"joint mobility", "strength building">>,
                  <<"outdoor activities", "swimming">>, <<"mild joint stiffness">>),
      FitnessUser("U003", 28, 5, <<"muscle gain">>, <<>>, NoList),
      FitnessUser("U004", 41, 0, <<>>, <<"Home gym">>, <<"no TIME">>) }

\* What the remote call of lines 226-234 can come back with.
ResponseTexts == {"{\"weekly_schedule\": {}}", "~~~json\n{\"weekly_schedule\": {}}\n~~~",
                  "~~~\n[]~~~", "  {} \n", "Here is the plan: {}", "~~~json", ""}

Outcomes ==
    {[kind |-> "raise"], [kind |-> "no_choices"]}
        \cup {[kind |-> "choice", content |-> c] : c \in ResponseTexts \cup {None}}

(***************************************************************************)
(* State                                                                   *)
(***************************************************************************)
VARIABLES
    users,                \* the list compare_workout_planning iterates
    user_i,               \* position of its loop (1-based)
    pc,                   \* position in the code
    workout_days, base_intensity, base_duration, workout_day_indices,
    user_workout_types,   \* locals of deterministic_agent
    pref_i,               \* position of the loop over user.preferences
    weekly_schedule,
    det_plan,             \* line 272
    llm_plan,             \* line 277
    caught,               \* the exception e of line 248, None without one
    printed               \* what compare_workout_planning has printed so far

vars == <<users, user_i, pc, workout_days, base_intensity, base_duration,
          workout_day_indices, user_workout_types, pref_i, weekly_schedule,
          det_plan, llm_plan, caught, printed>>

locals == <<workout_days, base_intensity, base_duration, workout_day_indices,
            user_workout_types, pref_i, weekly_schedule>>

user == users[user_i]

parameters ==
    [workout_days |-> workout_days, base_intensity |-> base_intensity,
     base_duration |-> base_duration, workout_day_indices |-> workout_day_indices]

\* The frame of a call of deterministic_agent before its first statement.
EnterCall ==
    /\ workout_days = None /\ base_intensity = None /\ base_duration = None
    /\ workout_day_indices = None /\ user_workout_types = None /\ pref_i = None
    /\ weekly_schedule = <<>>

InitWith(us) ==
    /\ users = us
    /\ user_i = 1
    /\ pc = "level"
    /\ EnterCall
    /\ det_plan = None
    /\ llm_plan = None
    /\ caught = None
    /\ printed = <<>>

\* One user: any level, goals and limitations of the bounded vocabulary, with
\* the preferences of a sample user.
Init ==
    \E level \in Levels, goals \in Seqs(GoalTexts, MaxGoals),
       preferences \in SamplePreferences,
       limitations \in Seqs(LimitationTexts, MaxLims) \cup {NoList} :
        InitWith(<<FitnessUser("U001", 35, level, goals, preferences, limitations)>>)

\* One user: any goals and preferences of the bounded vocabulary, with the level
\* and limitations of the first sample user (neither is read by lines 81-102).
InitTypes ==
    \E goals \in Seqs(GoalTexts \cup OtherGoalTexts, MaxGoals),
       preferences \in Seqs(PreferenceTexts, MaxPrefs) :
        InitWith(<<FitnessUser("U001", 35, 2, goals, preferences,
                               <<"limited equipment",
                                 "time constraints (max 30 min/day)">>)>>)

\* A list of sample users.
InitCompare == \E us \in Seqs(SampleUsers, MaxUsers) : us # <<>> /\ InitWith(us)

(***************************************************************************)
(* deterministic_agent, called at line 272                                 *)
(***************************************************************************)
\* lines 44-59
SetLevelParameters ==
    /\ pc = "level"
    /\ LET p == LevelParameters(user.fitness_level)
       IN  /\ workout_days' = p.workout_days
           /\ base_intensity' = p.base_intensity
           /\ base_duration' = p.base_duration
           /\ workout_day_indices' = p.workout_day_indices
    /\ pc' = "limitations"
    /\ UNCHANGED <<users, user_i, user_workout_types, pref_i, weekly_schedule,
                   det_plan, llm_plan, caught, printed>>

\* lines 61-68
AdjustLimitations ==
    /\ pc = "limitations"
    /\ LET p == AdjustForLimitations(parameters, user.limitations)
       IN  /\ workout_days' = p.workout_days
           /\ base_intensity' = p.base_intensity
           /\ base_duration' = p.base_duration
    /\ pc' = "goals"
    /\ UNCHANGED <<users, user_i, workout_day_indices, user_workout_types, pref_i,
                   weekly_schedule, det_plan, llm_plan, caught, printed>>

\* lines 81-93
SelectTypes ==
    /\ pc = "goals"
    /\ user_workout_types' = SelectWorkoutTypes(user.goals)
    /\ pref_i' = 1
    /\ pc' = "preferences"
    /\ UNCHANGED <<users, user_i, workout_days, base_intensity, base_duration,
                   workout_day_indices, weekly_schedule, det_plan, llm_plan, caught, printed>>

\* Mutant of ConsiderPreference: the loop takes each preference out of
\* user.preferences (pop(0)) instead of reading it.
ConsiderPreferenceConsuming ==
    /\ pc = "preferences"
    /\ user.preferences # <<>>
    /\ user_workout_types' = ApplyPreference(user_workout_types, Head(user.preferences))
    /\ users' = [users EXCEPT ![user_i].preferences = Tail(@)]
    /\ UNCHANGED <<user_i, pc, workout_days, base_intensity, base_duration,
                   workout_day_indices, pref_i, weekly_schedule, det_plan, llm_plan,
                   caught, printed>>

\* lines 96-102: one iteration of the loop over user.preferences
ConsiderPreference ==
    /\ pc = "preferences"
    /\ pref_i <= Len(user.preferences)
    /\ user_workout_types' = ApplyPreference(user_workout_types, user.preferences[pref_i])
    /\ pref_i' = pref_i + 1
    /\ UNCHANGED <<users, user_i, pc, workout_days, base_intensity, base_duration,
                   workout_day_indices, weekly_schedule, det_plan, llm_plan, caught, printed>>

\* lines 115-141: the loop over the workout days, and the return to line 272
CreateWeeklySchedule ==
    /\ pc = "preferences"
    /\ pref_i > Len(user.preferences)
    /\ weekly_schedule' = CreateSchedule(parameters, user_workout_types)
    /\ det_plan' = [weekly_schedule |-> weekly_schedule']
    /\ pc' = "llm"
    /\ UNCHANGED <<users, user_i, workout_days, base_intensity, base_duration,
                   workout_day_indices, user_workout_types, pref_i, llm_plan,
                   caught, printed>>

(***************************************************************************)
(* compare_workout_planning                                                *)
(***************************************************************************)
\* lines 273-297: the printing of the deterministic plan, llm_agent(user) on
\* some outcome of the remote call, and the printing of its plan.  Lines 289-292
\* need a dict with the key "weekly_schedule"; without one, or when llm_agent
\* raises, the exception ends compare_workout_planning.
CallLlmAgent ==
    /\ pc = "llm"
    /\ \E outcome \in Outcomes :
          LET result == llm_agent(user, outcome)
              printable == /\ ~result.raised
                           /\ result.value.kind = "dict"
                           /\ HasKey(result.value.items, "weekly_schedule")
          IN  /\ caught' = result.caught
              /\ llm_plan' = IF result.raised THEN llm_plan ELSE result.value
              /\ printed' = Append(printed,
                                   [user |-> user, det_plan |-> det_plan,
                                    llm_plan |-> IF printable THEN result.value
                                                 ELSE None])
              /\ pc' = IF result.raised THEN "raised"
                       ELSE IF printable THEN "next" ELSE "crashed"
    /\ UNCHANGED <<users, user_i, locals, det_plan>>

\* line 265: the next user, with a fresh call of deterministic_agent
NextUser ==
    /\ pc = "next"
    /\ user_i < Len(users)
    /\ user_i' = user_i + 1
    /\ pc' = "level"
    /\ workout_days' = None /\ base_intensity' = None /\ base_duration' = None
    /\ workout_day_indices' = None /\ user_workout_types' = None /\ pref_i' = None
    /\ weekly_schedule' = <<>>
    /\ det_plan' = None
    /\ llm_plan' = None
    /\ caught' = None
    /\ UNCHANGED <<users, printed>>

Agent ==
    \/ SetLevelParameters
    \/ AdjustLimitations
    \/ SelectTypes
    \/ ConsiderPreference
    \/ CreateWeeklySchedule

\* One call of deterministic_agent on one user.
Next == Agent

Spec == Init /\ [][Next]_vars

SpecTypes == InitTypes /\ [][Next]_vars

\* compare_workout_planning over a list of users.
NextCompare == Agent \/ CallLlmAgent \/ NextUser

SpecCompare == InitCompare /\ [][NextCompare]_vars


(***************************************************************************)
(* Properties                                                              *)
(***************************************************************************)
\* The limitation texts of the user that contain word, whatever the case.
Limited(word) ==
    \E i \in 1..Len(user.limitations) : Contains(word, Lower(user.limitations[i]))

\* The call of deterministic_agent has returned.
Returned == pc = "llm"

DayIndex(day) == CHOOSE d \in 1..Len(days) : days[d] = day

\* C1: for a profile with a limitation containing "time" (any case), the returned
\* schedule has at most 4 days and every day has duration <= 30.
C1_TimeLimitedSchedule ==
    (Returned /\ Limited("time")) =>
        /\ Len(weekly_schedule) <= 4
        /\ \A i \in 1..Len(weekly_schedule) : weekly_schedule[i].value.duration <= 30

\* C2: for a profile of level >= 4 with a limitation containing "joint" (any
\* case), the base intensity is lowered to "moderate" and no day of the returned
\* schedule has intensity "high".
C2_JointNeverHigh ==
    (Returned /\ user.fitness_level >= 4 /\ Limited("joint")) =>
        /\ base_intensity = "moderate"
        /\ \A i \in 1..Len(weekly_schedule) : weekly_schedule[i].value.intensity # "high"

C2_Witness ==
    /\ Returned /\ user.fitness_level = 5 /\ Limited("joint")
    /\ Len(weekly_schedule) = 5
    /\ \E i \in 1..Len(weekly_schedule) : weekly_schedule[i].value.type = "HIIT"

DesignatedDays == {days[workout_day_indices[j] + 1] : j \in 1..Len(workout_day_indices)}

\* C3: before the limitations are looked at, the level alone fixes the
\* parameters: level <= 1 gives 3 days, light, 30 minutes, {Mon, Wed, Fri};
\* level 2 or 3 gives 4, moderate, 45, {Mon, Wed, Fri, Sun}; level >= 4 gives
\* 5, high, 60, {Mon, Tue, Thu, Sat, Sun}.
C3_Tiers ==
    pc = "limitations" =>
        LET level == user.fitness_level
        IN  /\ level <= 1 =>
                /\ workout_days = 3 /\ base_intensity = "light" /\ base_duration = 30
                /\ DesignatedDays = {"Monday", "Wednesday", "Friday"}
            /\ level \in {2, 3} =>
                /\ workout_days = 4 /\ base_intensity = "moderate" /\ base_duration = 45
                /\ DesignatedDays = {"Monday", "Wednesday", "Friday", "Sunday"}
            /\ level >= 4 =>
                /\ workout_days = 5 /\ base_intensity = "high" /\ base_duration = 60
                /\ DesignatedDays = {"Monday", "Tuesday", "Thursday", "Saturday", "Sunday"}
            /\ Cardinality({t \in {"beginner", "intermediate", "advanced"} :
                                \/ t = "beginner" /\ level <= 1
                                \/ t = "intermediate" /\ level \in {2, 3}
                                \/ t = "advanced" /\ level >= 4}) = 1

C3_Witness ==
    /\ pc = "limitations" /\ user.fitness_level = 3
    /\ workout_days = 4 /\ base_duration = 45
    /\ Limited("time")

\* C4: the returned schedule has exactly as many keys as the workout-day count
\* after the limitations, all of them designated weekdays of the tier, no key
\* twice, in Monday-first order.
C4_ScheduleKeys ==
    Returned =>
        /\ Len(weekly_schedule) = workout_days
        /\ \A i \in 1..Len(weekly_schedule) : weekly_schedule[i].key \in DesignatedDays
        /\ \A i, j \in 1..Len(weekly_schedule) :
              i < j => DayIndex(weekly_schedule[i].key) < DayIndex(weekly_schedule[j].key)

C4_Witness ==
    /\ Returned /\ user.fitness_level = 5 /\ Limited("time")
    /\ workout_days = 4 /\ Len(workout_day_indices) = 5
    /\ Keys(weekly_schedule) = <<"Monday", "Tuesday", "Thursday", "Saturday">>

\* C5: when the remote call or the parsing of its response raised, llm_agent
\* raises nothing and returns a dict with the keys chain_of_thought, reasoning,
\* weekly_schedule and considerations, whose weekly_schedule is the one
\* deterministic_agent returned for the same user at line 272.
C5_Fallback ==
    (pc \in {"next", "crashed", "raised"} /\ caught # None) =>
        /\ pc # "raised"
        /\ llm_plan.kind = "dict"
        /\ {llm_plan.items[i].key : i \in 1..Len(llm_plan.items)}
             = {"chain_of_thought", "reasoning", "weekly_schedule", "considerations"}
        /\ Len(llm_plan.items) = 4
        /\ DictGet(llm_plan.items, "weekly_schedule", None) = det_plan.weekly_schedule

C5_Witness ==
    /\ pc = "next" /\ caught = "Connection error."
    /\ Len(det_plan.weekly_schedule) = 4
    /\ DictGet(llm_plan.items, "weekly_schedule", None) = det_plan.weekly_schedule

\* Where the goals mention phrases of goal_to_workout: the pairs <<g, j>> such
\* that goal g (in the user's order) contains the key of entry j, in any case.
Matches(goals) ==
    UNION {UNION {{<<g, j>> : j \in {e \in 1..Len(goal_to_workout) :
                                       Contains(goal_to_workout[e].key, text)}} :
                  text \in {Lower(goals[g])}} :
           g \in 1..Len(goals)}

\* The types the matched entries list.
MatchedTypes(matches) ==
    UNION {{goal_to_workout[m[2]].value[k] : k \in 1..Len(goal_to_workout[m[2]].value)} :
           m \in matches}

\* Where type t occurs: goal g, entry j, position k, as the number gjk, which
\* orders the occurrences as the goals, the table and the lists order them.
Ranks(t, matches) ==
    UNION {{(m[1] * 10 + m[2]) * 10 + k :
               k \in {p \in 1..Len(goal_to_workout[m[2]].value) :
                         goal_to_workout[m[2]].value[p] = t}} :
           m \in matches}

\* The first occurrence of type t.
FirstOccurrence(t, matches) ==
    LET ranks == Ranks(t, matches)
    IN  CHOOSE r \in ranks : \A q \in ranks : r <= q

\* C6: the type list used for the round-robin (after the goals, the removal of
\* duplicates and the preferences) holds no type twice, holds every type the
\* goals give, and holds those in the order of their first occurrence over the
\* goals in the user's order (each before the next one, which orders them all).
C6_UniqueInFirstOccurrenceOrder ==
    pc \in {"preferences", "llm"} =>
        \A matches \in {Matches(user.goals)} :
            \A fromGoals \in {MatchedTypes(matches)} :
                LET types == user_workout_types
                    given == SelectSeq(types, LAMBDA t : t \in fromGoals)
                IN  /\ \A i, j \in 1..Len(types) : i # j => types[i] # types[j]
                    /\ \A t \in fromGoals : InList(t, types)
                    /\ \A i \in 1..(Len(given) - 1) :
                          FirstOccurrence(given[i], matches)
                              < FirstOccurrence(given[i + 1], matches)

C6_Witness ==
    /\ Returned
    /\ user.goals = <<"weight management", "stress reduction">>
    /\ user.preferences = <<"outdoor swimming">>
    /\ user_workout_types = <<"cardio", "HIIT", "strength training", "yoga",
                              "active recovery", "swimming">>

\* C7: when no goal contains a phrase of goal_to_workout (also with no goal at
\* all), the type list before the preferences is [cardio, strength training,
\* flexibility]; and the type list is never empty from there on.
C7_DefaultTypes ==
    /\ (pc = "preferences" /\ pref_i = 1 /\ Matches(user.goals) = {})
          => user_workout_types = <<"cardio", "strength training", "flexibility">>
    /\ pc \in {"preferences", "llm"} => Len(user_workout_types) > 0
    /\ Returned => Len(weekly_schedule) > 0

C7_Witness ==
    /\ Returned /\ user.goals = <<"unknown goal xyz">>
    /\ Keys(weekly_schedule) = <<"Monday", "Wednesday", "Friday", "Sunday">>
    /\ \A i \in 1..3 :
          weekly_schedule[i].value.type = <<"cardio", "strength training", "flexibility">>[i]

KeywordFirst(types, pref) ==
    IF Contains("swimming", Lower(pref))
    THEN (IF InList("swimming", types) THEN types ELSE Append(types, "swimming"))
    ELSE IF Contains("outdoor", Lower(pref))
    THEN (IF InList("cardio", types) THEN types ELSE Append(types, "cardio"))
    ELSE IF Contains("home", Lower(pref))
    THEN (IF InList("yoga", types) \/ InList("HIIT", types) THEN types
          ELSE Append(types, "HIIT"))
    ELSE types

\* A step of the loop over the preferences.
PreferenceStep == pc = "preferences" /\ pref_i' = pref_i + 1

\* C9 as stated: a preference containing "swimming" can only append "swimming",
\* the "outdoor" rule applies only to preferences without "swimming", the "home"
\* rule only to preferences with neither.
C9_KeywordFirst ==
    [][PreferenceStep =>
          user_workout_types' = KeywordFirst(user_workout_types, user.preferences[pref_i])]_vars

\* C9 as amended: a rule is passed over when its keyword is missing or its type
\* is already there (for "home": yoga or HIIT is there), and the first rule not
\* passed over appends its type; so each preference appends at most one type
\* and never removes or reorders one.
C9_FirstRuleThatApplies ==
    [][PreferenceStep =>
          LET types == user_workout_types
              pref == Lower(user.preferences[pref_i])
              swimming == Contains("swimming", pref) /\ ~InList("swimming", types)
              outdoor == Contains("outdoor", pref) /\ ~InList("cardio", types)
              home == /\ Contains("home", pref)
                      /\ ~InList("yoga", types) /\ ~InList("HIIT", types)
          IN  /\ swimming => user_workout_types' = Append(types, "swimming")
              /\ (~swimming /\ outdoor) => user_workout_types' = Append(types, "cardio")
              /\ (~swimming /\ ~outdoor /\ home)
                    => user_workout_types' = Append(types, "HIIT")
              /\ (~swimming /\ ~outdoor /\ ~home) => user_workout_types' = types
              /\ Len(user_workout_types') <= Len(types) + 1
              /\ SubSeq(user_workout_types', 1, Len(types)) = types]_vars

\* A preference containing "swimming" has appended "cardio".
C9_Witness ==
    /\ pc = "preferences" /\ pref_i = 2
    /\ user.goals = <<"joint mobility">>
    /\ user.preferences[1] = "outdoor swimming"
    /\ user_workout_types = <<"flexibility", "swimming", "yoga", "cardio">>

\* C10: day i (0-based) of the returned schedule is the i-th designated weekday,
\* with type types[i mod |types|]; its intensity is the adjusted base intensity,
\* but light for active recovery, and moderate for HIIT on a light base; its
\* duration is the adjusted base duration, but 30 for HIIT on a base above 30,
\* and 45 for yoga on a base below 45.
C10_DayDescriptors ==
    Returned =>
        \A n \in 1..Len(weekly_schedule) :
            LET i == n - 1
                day == weekly_schedule[n].value
                type == user_workout_types[(i % Len(user_workout_types)) + 1]
            IN  /\ weekly_schedule[n].key = days[workout_day_indices[n] + 1]
                /\ day.type = type
                /\ day.intensity =
                      IF type = "active recovery" THEN "light"
                      ELSE IF type = "HIIT" /\ base_intensity = "light" THEN "moderate"
                      ELSE base_intensity
                /\ day.duration =
                      IF type = "HIIT" /\ base_duration > 30 THEN 30
                      ELSE IF type = "yoga" /\ base_duration < 45 THEN 45
                      ELSE base_duration

C10_Witness ==
    /\ Returned /\ base_intensity = "moderate" /\ base_duration = 45
    /\ Len(user_workout_types) = 3
    /\ \E n \in 1..Len(weekly_schedule) :
          /\ weekly_schedule[n].value.type = "active recovery"
          /\ weekly_schedule[n].value.intensity = "light"
    /\ weekly_schedule[4].value.type = weekly_schedule[1].value.type

=============================================================================
